---- MODULE Spec2Model ----
(***************************************************************************)
(* file-inventory (main.go): a pre-count walk, then a serial walk that     *)
(* launches one semaphore-gated hashing goroutine per regular file, a      *)
(* result aggregator, an error aggregator, and the shutdown sequence.      *)
(***************************************************************************)
EXTENDS Integers, Sequences, FiniteSets, TLC

\* ---------------------------------------------------------------- bounds
MaxEntries == 3             \* entries of the directory tree, root included
MaxWorkers == 2             \* largest value of the -workers flag explored

\* ------------------------------------------------------------ the inputs
\* File kinds the explored trees are built from (os.Lstat never follows a
\* symbolic link, so a link is an entry of its own kind).
TreeKinds == {"dir", "regular", "symlink"}

\* The mode bits the walk callback treats as "special".
SpecialKinds == {"pipe", "socket", "device", "chardev", "symlink"}

\* Base names of the explored trees ("data" stands for any name that is not
\* excluded); the Skip Rule Set of the design names version-control metadata
\* directories as excluded.
Names == {"data", ".git"}
ExcludedNames == {".git"}

\* Values of the -workers flag: flag.Int accepts any integer.
WorkerCounts == (0 - 1)..MaxWorkers

Entry(k, d, nm) == [kind |-> k, depth |-> d, name |-> nm]

\* Depths at which the entry that follows the pre-order prefix t may sit:
\* only a directory has children.
ChildDepths(t) ==
    LET last == t[Len(t)]
    IN  1..(IF last.kind = "dir" THEN last.depth + 1 ELSE last.depth)

\* Base names the entry at depth d that follows the pre-order prefix t may
\* bear: a directory holds one entry of a name, and ".git" sorts before every
\* other name, so only the first entry of a directory can bear it.
NamesAfter(t, d) ==
    IF d = t[Len(t)].depth + 1 THEN Names ELSE Names \ ExcludedNames

\* The trees that extend the pre-order prefix t by one entry.
Extensions(t) ==
    UNION {{Append(t, Entry(k, d, nm)) : k \in TreeKinds, nm \in NamesAfter(t, d)} :
              d \in ChildDepths(t)}

\* Every tree of n entries, listed in the lexical pre-order filepath.Walk uses.
RECURSIVE TreesOfSize(_)
TreesOfSize(n) ==
    IF n = 1
    THEN {<<Entry(k, 0, "data")>> : k \in TreeKinds}
    ELSE UNION {Extensions(t) : t \in TreesOfSize(n - 1)}

Trees == UNION {TreesOfSize(n) : n \in 1..MaxEntries}

VARIABLES
    entries,        \* the directory tree under -dir, in pre-order
    workerCount,    \* *workerCount
    pc,             \* position of the main goroutine
    idx,            \* entry the running filepath.Walk visits next
    fileCount,      \* countFiles' fileCount, then totalFiles
    countErrAt,     \* entry whose error countFiles returned, 0 for a nil error
    walkErr,        \* walkErr of the hashing walk is non-nil
    sem,            \* number of tokens held in sem
    wg,             \* counter of wg
    worker,         \* per entry: position of its hashing goroutine
    outcome,        \* per entry: hashErr of its running goroutine ("ok" for nil)
    resultsChan,    \* buffer of resultsChan
    resClosed,      \* resultsChan is closed
    errChan,        \* buffer of errChan
    errClosed,      \* errChan is closed
    resAgg,         \* position of the result aggregator goroutine
    resHeld,        \* its loop variable res
    files,          \* the slice files
    doneCollecting, \* doneCollecting is closed
    errAgg,         \* position of the error aggregator goroutine
    errHeld,        \* its loop variable procErr
    errorCount,     \* errorCount
    errorWg,        \* counter of errorWg
    bar,            \* number of bar.Add(1) calls
    saved,          \* saveToJSON: "no" (not called), "ok" or "failed"
    output,         \* the sequence handed to saveToJSON
    reported,       \* errorCount as main read it before saving
    sentRes,        \* history: every record sent on resultsChan, in order
    sentErr,        \* history: per entry, the errors sent on errChan about it
    hashErrors,     \* history: hash-phase errors the error aggregator counted
    access,         \* history: per entry, how the hashing walk's access ended
    hashResult,     \* history: per entry, whether calculateSHA256 succeeded
    counted,        \* history: the entries countFiles counted, kept until
                    \* the hashing walk has returned
    sameEntries     \* history: the hashing walk reached without error exactly
                    \* the non-directory entries countFiles counted

vars == <<entries, workerCount, pc, idx, fileCount, countErrAt, walkErr, sem, wg,
          worker, outcome, resultsChan, resClosed, errChan, errClosed, resAgg,
          resHeld, files, doneCollecting, errAgg, errHeld, errorCount, errorWg,
          bar, saved, output, reported, sentRes, sentErr, hashErrors,
          access, hashResult, counted, sameEntries>>

Size == Len(entries)
Ids == 1..Size

\* -------------------------------------------------------- filepath.Walk
LstatErrors == {"lstatPerm", "lstatErr"}
ReadDirErrors == {"readdirPerm", "readdirErr"}

\* What accessing entry e can yield: os.Lstat may fail on any entry, reading
\* the names of a directory may fail on a directory.
Outcomes(e) ==
    {"ok"} \cup LstatErrors \cup (IF e.kind = "dir" THEN ReadDirErrors ELSE {})

\* Variant: no error is recognised as a permission error.
IsPermissionNever(acc) == FALSE

\* os.IsPermission(err)
IsPermission(acc) == acc \in {"lstatPerm", "readdirPerm"}

\* info != nil && info.IsDir(): a failed Lstat hands the callback a nil info.
InfoIsDir(e, acc) == acc \notin LstatErrors /\ e.kind = "dir"

SetMin(S) == CHOOSE x \in S : \A y \in S : x <= y

\* First entry after i that is not beneath i.
NextSibling(i) ==
    LET later == {j \in (i + 1)..Size : entries[j].depth <= entries[i].depth}
    IN  IF later = {} THEN Size + 1 ELSE SetMin(later)

\* First entry after i that is outside the directory holding i.
AfterParent(i) ==
    LET later == {j \in (i + 1)..Size : entries[j].depth < entries[i].depth}
    IN  IF later = {} THEN Size + 1 ELSE SetMin(later)

\* The entry filepath.Walk visits after entry i, whose access yielded acc and
\* for which the callback returned ret ("nil", "SkipDir" or "err").
WalkNext(i, acc, ret) ==
    IF ret = "err" THEN Size + 1
    ELSE IF acc \in LstatErrors THEN NextSibling(i)
    ELSE IF entries[i].kind = "dir"
         THEN IF acc = "ok" /\ ret = "nil" THEN i + 1 ELSE NextSibling(i)
    ELSE IF ret = "SkipDir" THEN AfterParent(i)
    ELSE i + 1

\* ----------------------------------------------------------- countFiles
\* The callback of countFiles: what it returns and whether it counts.
countCallback(e, acc) ==
    IF acc # "ok"
    THEN IF IsPermission(acc)
         THEN [ret |-> IF InfoIsDir(e, acc) THEN "SkipDir" ELSE "nil", inc |-> 0]
         ELSE [ret |-> "err", inc |-> 0]
    ELSE [ret |-> "nil", inc |-> IF e.kind # "dir" THEN 1 ELSE 0]

\* ------------------------------------------------- the walk callback
\* Variant: the os.ModeSymlink bit is not tested.
IsSpecialNoSymlink(e) == e.kind \in SpecialKinds \ {"symlink"}

\* The mode-bit test of lines 175-179.
IsSpecial(e) == e.kind \in SpecialKinds

\* Variant: the special-file test is missing, so every non-directory is
\* dispatched.
ClassifyNoSpecialTest(e, acc) ==
    IF acc # "ok"
    THEN IF IsPermission(acc)
         THEN IF InfoIsDir(e, acc) THEN "prune" ELSE "skip"
         ELSE "report"
    ELSE IF e.kind = "dir" THEN "descend"
    ELSE "dispatch"

\* Variant: the return after a permission error on a file is missing, so the
\* error is reported like any other.
ClassifyPermFallsThrough(e, acc) ==
    IF acc # "ok"
    THEN IF IsPermission(acc) /\ InfoIsDir(e, acc) THEN "prune" ELSE "report"
    ELSE IF e.kind = "dir" THEN "descend"
    ELSE IF IsSpecial(e) THEN "special"
    ELSE "dispatch"

\* What the hashing walk's callback does with an entry: "prune" (SkipDir),
\* "skip" (return nil at once), "report" (send a walk error), "descend"
\* (a directory), "special" (bar.Add and return) or "dispatch".
Classify(e, acc) ==
    IF acc # "ok"
    THEN IF IsPermission(acc)
         THEN IF InfoIsDir(e, acc) THEN "prune" ELSE "skip"
         ELSE "report"
    ELSE IF e.kind = "dir" THEN "descend"
    ELSE IF IsSpecial(e) THEN "special"
    ELSE "dispatch"

\* Variant: like countFiles' callback, the callback returns the error it reports.
CallbackRetPropagates(class) ==
    IF class = "prune" THEN "SkipDir" ELSE IF class = "report" THEN "err" ELSE "nil"

\* The value the callback returns for each class.
CallbackRet(class) == IF class = "prune" THEN "SkipDir" ELSE "nil"

\* The entry visited after entry i whose access failed and was reported:
\* filepath.Walk never descends into an entry whose access failed, whichever
\* access it was.
AfterReport(i) == WalkNext(i, "lstatErr", CallbackRet("report"))

WalkErrMsg(i) == [phase |-> "walk", path |-> i, op |-> "access"]
\* Variant: the hash error is formatted without its cause.
HashErrMsgNoCause(i, op) == [phase |-> "hash", path |-> i, op |-> "hash"]

\* fmt.Errorf("error hashing %s: %w", filePath, hashErr): the cause is the
\* error of os.Open (op "open") or of io.Copy (op "read").
HashErrMsg(i, op) == [phase |-> "hash", path |-> i, op |-> op]

\* procErr before the first receive.
NoErrMsg == [phase |-> "none", path |-> 0, op |-> "none"]

\* How an access ended, as the history records it: "ok", "perm" (a permission
\* error) or "err" (any other error).
AccessKind(acc) ==
    IF acc = "ok" THEN "ok"
    ELSE IF acc \in {"lstatPerm", "readdirPerm"} THEN "perm"
    ELSE "err"

\* Capacity of sem, resultsChan and errChan.
Cap == workerCount

Init ==
    /\ entries \in Trees
    /\ workerCount \in WorkerCounts
    /\ pc = "count"
    /\ idx = 1
    /\ fileCount = 0
    /\ countErrAt = 0
    /\ walkErr = FALSE
    /\ sem = 0
    /\ wg = 0
    /\ worker = [i \in 1..Len(entries) |-> "none"]
    /\ outcome = [i \in 1..Len(entries) |-> "none"]
    /\ resultsChan = <<>>
    /\ resClosed = FALSE
    /\ errChan = <<>>
    /\ errClosed = FALSE
    /\ resAgg = "none"
    /\ resHeld = 0
    /\ files = <<>>
    /\ doneCollecting = FALSE
    /\ errAgg = "none"
    /\ errHeld = NoErrMsg
    /\ errorCount = 0
    /\ errorWg = 0
    /\ bar = 0
    /\ saved = "no"
    /\ output = <<>>
    /\ reported = 0
    /\ sentRes = <<>>
    /\ sentErr = [i \in 1..Len(entries) |-> 0]
    /\ hashErrors = 0
    /\ access = [i \in 1..Len(entries) |-> "none"]
    /\ hashResult = [i \in 1..Len(entries) |-> "none"]
    /\ counted = {}
    /\ sameEntries = FALSE

pipeVars == <<sem, wg, worker, outcome, resultsChan, resClosed, errChan,
              errClosed, resAgg, resHeld, files, doneCollecting, errAgg,
              errHeld, errorCount, errorWg, bar, sentRes, sentErr,
              hashErrors>>

\* ------------------------------------------------------ main: pre-count
\* One callback invocation of countFiles' walk.
CountVisit ==
    /\ pc = "count"
    /\ idx <= Size
    /\ \E acc \in Outcomes(entries[idx]) :
          LET r == countCallback(entries[idx], acc)
          IN  /\ fileCount' = fileCount + r.inc
              /\ counted' = IF r.inc = 1 THEN counted \cup {idx} ELSE counted
              /\ countErrAt' = IF r.ret = "err" THEN idx ELSE 0
              /\ idx' = WalkNext(idx, acc, r.ret)
    /\ UNCHANGED <<entries, workerCount, pc, walkErr, saved, output, reported, access, hashResult, sameEntries>>
    /\ UNCHANGED pipeVars

\* Variant: the test for an empty count is missing.
NoFilesNever == FALSE

\* totalFiles == 0 (line 104).
NoFiles == fileCount = 0

\* countFiles returns; main exits on an error, saves an empty inventory when
\* nothing was counted, and otherwise goes on to set the pipeline up.
CountReturn ==
    /\ pc = "count"
    /\ idx > Size
    /\ IF countErrAt # 0
       THEN pc' = "exit1" /\ UNCHANGED <<saved, output>>
       ELSE IF NoFiles
       THEN \E ok \in BOOLEAN :
               /\ saved' = IF ok THEN "ok" ELSE "failed"
               /\ output' = <<>>
               /\ pc' = IF ok THEN "exit0" ELSE "exit1"
       ELSE pc' = "setup" /\ UNCHANGED <<saved, output>>
    /\ UNCHANGED <<entries, workerCount, idx, fileCount, countErrAt, walkErr, reported, access, hashResult, counted, sameEntries>>
    /\ UNCHANGED pipeVars

\* ------------------------------------------- main: channels, aggregators
\* make(chan struct{}, n) panics for a negative n.
MakeChanPanics(n) == n < 0

\* Lines 117-149: the bar, sem, both channels, then both aggregators start.
Setup ==
    /\ pc = "setup"
    /\ IF MakeChanPanics(workerCount)
       THEN /\ pc' = "panicMake"
            /\ UNCHANGED <<idx, resAgg, errAgg, errorWg>>
       ELSE /\ pc' = "walk"
            /\ idx' = 1
            /\ resAgg' = "recv"
            /\ errAgg' = "recv"
            /\ errorWg' = 1
    /\ UNCHANGED <<entries, workerCount, fileCount, countErrAt, walkErr, sem, wg,
                   worker, outcome, resultsChan, resClosed, errChan, errClosed,
                   resHeld, files, doneCollecting, errHeld, errorCount, bar,
                   saved, output, reported, sentRes, sentErr, hashErrors, access, hashResult, counted, sameEntries>>

\* ---------------------------------------------------- main: hashing walk
\* Variant: wg.Add(1) is missing.
WgAddMissing(w) == w

\* wg.Add(1).
WgAdd(w) == w + 1

\* Variant: the goroutine is launched without acquiring sem first.
SemFreeAlways == TRUE

\* sem <- struct{}{} can proceed: the buffer of sem has room.
SemFree == sem < Cap

\* Variant: the walker does not advance the bar for a skipped special file.
BarAddSpecialMissing(b) == b

\* bar.Add(1) for a skipped special file (line 187).
BarAddSpecial(b) == b + 1

\* One callback invocation of the hashing walk, up to its first operation
\* that can block (the send of a walk error, the acquire of sem).
WalkVisit ==
    /\ pc = "walk"
    /\ idx <= Size
    /\ \E acc \in Outcomes(entries[idx]) :
          LET class == Classify(entries[idx], acc)
          IN  /\ pc' = CASE class = "report" -> "senderr"
                         [] class = "dispatch" -> "acquire"
                         [] OTHER -> "walk"
              /\ idx' = IF class \in {"report", "dispatch"}
                        THEN idx
                        ELSE WalkNext(idx, acc, CallbackRet(class))
              /\ walkErr' = (CallbackRet(class) = "err")
              /\ bar' = IF class = "special" THEN BarAddSpecial(bar) ELSE bar
              /\ wg' = IF class = "dispatch" THEN WgAdd(wg) ELSE wg
              /\ access' = [access EXCEPT ![idx] = AccessKind(acc)]
    /\ UNCHANGED <<entries, workerCount, fileCount, countErrAt, sem, worker,
                   outcome, resultsChan, resClosed, errChan, errClosed, resAgg,
                   resHeld, files, doneCollecting, errAgg, errHeld, errorCount,
                   errorWg, saved, output, reported, sentRes, sentErr, hashErrors, hashResult, counted, sameEntries>>

\* errChan <- fmt.Errorf("walk error accessing ..."), then return nil: the
\* walk goes on with the next sibling (the entry is not descended into).
WalkSendErr ==
    /\ pc = "senderr"
    /\ IF errClosed
       THEN /\ pc' = "panicSend"
            /\ UNCHANGED <<idx, errChan, errAgg, errHeld, sentErr>>
       ELSE /\ \/ /\ Len(errChan) < Cap
                  /\ errChan' = Append(errChan, WalkErrMsg(idx))
                  /\ UNCHANGED <<errAgg, errHeld>>
               \/ /\ Cap = 0
                  /\ errAgg = "recv"
                  /\ errAgg' = "count"
                  /\ errHeld' = WalkErrMsg(idx)
                  /\ UNCHANGED errChan
            /\ sentErr' = [sentErr EXCEPT ![idx] = @ + 1]
            /\ idx' = AfterReport(idx)
            /\ pc' = "walk"
    /\ UNCHANGED <<entries, workerCount, fileCount, countErrAt, walkErr, sem, wg,
                   worker, outcome, resultsChan, resClosed, errClosed, resAgg,
                   resHeld, files, doneCollecting, errorCount, errorWg, bar,
                   saved, output, reported, sentRes, hashErrors, access, hashResult, counted, sameEntries>>

\* sem <- struct{}{} and the go statement that follows it.
WalkAcquire ==
    /\ pc = "acquire"
    /\ SemFree
    /\ sem' = sem + 1
    /\ worker' = [worker EXCEPT ![idx] = "hash"]
    /\ idx' = idx + 1
    /\ pc' = "walk"
    /\ UNCHANGED <<entries, workerCount, fileCount, countErrAt, walkErr, wg,
                   outcome, resultsChan, resClosed, errChan, errClosed, resAgg,
                   resHeld, files, doneCollecting, errAgg, errHeld, errorCount,
                   errorWg, bar, saved, output, reported, sentRes, sentErr, hashErrors, access, hashResult, counted, sameEntries>>

\* The non-directory entries the hashing walk reached without an access error.
ReachedFiles == {k \in Ids : entries[k].kind # "dir" /\ access[k] = "ok"}

\* filepath.Walk returns.
WalkReturn ==
    /\ pc = "walk"
    /\ idx > Size
    /\ pc' = "wait"
    /\ sameEntries' = (counted = ReachedFiles)
    /\ counted' = {}
    /\ UNCHANGED <<entries, workerCount, idx, fileCount, countErrAt, walkErr,
                   saved, output, reported, access, hashResult>>
    /\ UNCHANGED pipeVars

\* -------------------------------------------------- hashing goroutines
\* What calculateSHA256 can return: a digest, the error of os.Open, or the
\* error of io.Copy.
HashOutcomes == {"ok", "open", "read"}

\* Variant: the return after the error send is missing, so the goroutine goes
\* on to build and send a record.
AfterErrSendFallsThrough == "sendRes"

\* Where the goroutine goes after sending its hash error (line 216: return).
AfterErrSend == "bar"

\* Variant: the deferred function never receives from sem.
SemReleaseMissing(s) == s

\* The token count of sem after <-sem.
SemRelease(s) == s - 1

\* Variant: the test of hashErr is missing, so a record is built and sent
\* whatever calculateSHA256 returned.
SendPosNoErrTest(r) == "sendRes"

\* if hashErr != nil (line 209): the send the goroutine goes to.
SendPos(r) == IF r = "ok" THEN "sendRes" ELSE "sendErr"

\* hash, hashErr := calculateSHA256(filePath)
WorkerHash(i) ==
    /\ worker[i] = "hash"
    /\ \E r \in HashOutcomes :
          /\ outcome' = [outcome EXCEPT ![i] = r]
          /\ hashResult' = [hashResult EXCEPT ![i] = IF r = "ok" THEN "ok" ELSE "failed"]
          /\ worker' = [worker EXCEPT ![i] = SendPos(r)]
    /\ UNCHANGED <<entries, workerCount, pc, idx, fileCount, countErrAt, walkErr,
                   sem, wg, resultsChan, resClosed, errChan, errClosed, resAgg,
                   resHeld, files, doneCollecting, errAgg, errHeld, errorCount,
                   errorWg, bar, saved, output, reported, sentRes, sentErr, hashErrors, access, counted, sameEntries>>

\* errChan <- fmt.Errorf("error hashing ...")
WorkerSendErr(i) ==
    /\ worker[i] = "sendErr"
    /\ pc \notin {"panicSend"}
    /\ IF errClosed
       THEN /\ pc' = "panicSend"
            /\ UNCHANGED <<errChan, sentErr, worker>>
       ELSE /\ Len(errChan) < Cap
            /\ errChan' = Append(errChan, HashErrMsg(i, outcome[i]))
            /\ sentErr' = [sentErr EXCEPT ![i] = @ + 1]
            /\ worker' = [worker EXCEPT ![i] = AfterErrSend]
            /\ pc' = pc
    /\ UNCHANGED <<entries, workerCount, idx, fileCount, countErrAt, walkErr, sem,
                   wg, outcome, resultsChan, resClosed, errClosed, resAgg,
                   resHeld, files, doneCollecting, errAgg, errHeld, errorCount,
                   errorWg, bar, saved, output, reported, sentRes, hashErrors, access, hashResult, counted, sameEntries>>

\* resultsChan <- result
WorkerSendRes(i) ==
    /\ worker[i] = "sendRes"
    /\ pc \notin {"panicSend"}
    /\ IF resClosed
       THEN /\ pc' = "panicSend"
            /\ UNCHANGED <<resultsChan, sentRes, worker>>
       ELSE /\ Len(resultsChan) < Cap
            /\ resultsChan' = Append(resultsChan, i)
            /\ sentRes' = Append(sentRes, i)
            /\ worker' = [worker EXCEPT ![i] = "bar"]
            /\ pc' = pc
    /\ UNCHANGED <<entries, workerCount, idx, fileCount, countErrAt, walkErr, sem,
                   wg, outcome, resClosed, errChan, errClosed, resAgg, resHeld,
                   files, doneCollecting, errAgg, errHeld, errorCount, errorWg,
                   bar, saved, output, reported, sentErr, hashErrors, access, hashResult, counted, sameEntries>>

\* bar.Add(1), then the first statement of the deferred function: <-sem.
WorkerRelease(i) ==
    /\ worker[i] = "bar"
    /\ bar' = bar + 1
    /\ sem' = SemRelease(sem)
    /\ worker' = [worker EXCEPT ![i] = "wgdone"]
    /\ UNCHANGED <<entries, workerCount, pc, idx, fileCount, countErrAt, walkErr,
                   wg, outcome, resultsChan, resClosed, errChan, errClosed,
                   resAgg, resHeld, files, doneCollecting, errAgg, errHeld,
                   errorCount, errorWg, saved, output, reported, sentRes, sentErr, hashErrors, access, hashResult, counted, sameEntries>>

\* The second statement of the deferred function: wg.Done(); the goroutine ends.
WorkerDone(i) ==
    /\ worker[i] = "wgdone"
    /\ wg' = wg - 1
    /\ worker' = [worker EXCEPT ![i] = "exited"]
    /\ outcome' = [outcome EXCEPT ![i] = "none"]
    /\ UNCHANGED <<entries, workerCount, pc, idx, fileCount, countErrAt, walkErr,
                   sem, resultsChan, resClosed, errChan, errClosed,
                   resAgg, resHeld, files, doneCollecting, errAgg, errHeld,
                   errorCount, errorWg, bar, saved, output, reported, sentRes,
                   sentErr, hashErrors, access, hashResult, counted, sameEntries>>

\* ----------------------------------------------------------- aggregators
\* for res := range resultsChan: one receive.
ResRecv ==
    /\ resAgg = "recv"
    /\ resultsChan # <<>>
    /\ resHeld' = Head(resultsChan)
    /\ resultsChan' = Tail(resultsChan)
    /\ resAgg' = "append"
    /\ UNCHANGED <<entries, workerCount, pc, idx, fileCount, countErrAt, walkErr,
                   sem, wg, worker, outcome, resClosed, errChan, errClosed,
                   files, doneCollecting, errAgg, errHeld, errorCount, errorWg,
                   bar, saved, output, reported, sentRes, sentErr, hashErrors, access, hashResult, counted, sameEntries>>

\* Variant: the record is put in front of the slice.
PrependRecord(fs, r) == <<r>> \o fs

\* append(files, res)
AppendRecord(fs, r) == Append(fs, r)

\* files = append(files, res)
ResAppend ==
    /\ resAgg = "append"
    /\ files' = AppendRecord(files, resHeld)
    /\ resAgg' = "recv"
    /\ UNCHANGED <<entries, workerCount, pc, idx, fileCount, countErrAt, walkErr,
                   sem, wg, worker, outcome, resultsChan, resClosed, errChan,
                   errClosed, resHeld, doneCollecting, errAgg, errHeld,
                   errorCount, errorWg, bar, saved, output, reported, sentRes,
                   sentErr, hashErrors, access, hashResult, counted, sameEntries>>

\* The range loop ends on the closed, drained channel: close(doneCollecting).
ResExit ==
    /\ resAgg = "recv"
    /\ resultsChan = <<>>
    /\ resClosed
    /\ resAgg' = "done"
    /\ doneCollecting' = TRUE
    /\ UNCHANGED <<entries, workerCount, pc, idx, fileCount, countErrAt, walkErr,
                   sem, wg, worker, outcome, resultsChan, resClosed, errChan,
                   errClosed, resHeld, files, errAgg, errHeld, errorCount,
                   errorWg, bar, saved, output, reported, sentRes, sentErr, hashErrors, access, hashResult, counted, sameEntries>>

\* for procErr := range errChan: one receive.
ErrRecv ==
    /\ errAgg = "recv"
    /\ errChan # <<>>
    /\ errHeld' = Head(errChan)
    /\ errChan' = Tail(errChan)
    /\ errAgg' = "count"
    /\ UNCHANGED <<entries, workerCount, pc, idx, fileCount, countErrAt, walkErr,
                   sem, wg, worker, outcome, resultsChan, resClosed, errClosed,
                   resAgg, resHeld, files, doneCollecting, errorCount, errorWg,
                   bar, saved, output, reported, sentRes, sentErr, hashErrors, access, hashResult, counted, sameEntries>>

\* errorCount++ under errorMutex.
ErrCount ==
    /\ errAgg = "count"
    /\ errorCount' = errorCount + 1
    /\ hashErrors' = IF errHeld.phase = "hash" THEN hashErrors + 1 ELSE hashErrors
    /\ errAgg' = "recv"
    /\ UNCHANGED <<entries, workerCount, pc, idx, fileCount, countErrAt, walkErr,
                   sem, wg, worker, outcome, resultsChan, resClosed, errChan,
                   errClosed, resAgg, resHeld, files, doneCollecting, errHeld,
                   errorWg, bar, saved, output, reported, sentRes, sentErr, access, hashResult, counted, sameEntries>>

\* The range loop ends on the closed, drained channel: errorWg.Done().
ErrExit ==
    /\ errAgg = "recv"
    /\ errChan = <<>>
    /\ errClosed
    /\ errAgg' = "done"
    /\ errorWg' = errorWg - 1
    /\ UNCHANGED <<entries, workerCount, pc, idx, fileCount, countErrAt, walkErr,
                   sem, wg, worker, outcome, resultsChan, resClosed, errChan,
                   errClosed, resAgg, resHeld, files, doneCollecting, errHeld,
                   errorCount, bar, saved, output, reported, sentRes, sentErr, hashErrors, access, hashResult, counted, sameEntries>>

\* -------------------------------------------------------- main: shutdown
\* Variant: main does not wait for the hashing goroutines.
WgIdleIgnored == TRUE

\* wg.Wait() can return.
WgIdle == wg = 0

\* Variant: main does not wait for doneCollecting.
CollectDoneIgnored == TRUE

\* <-doneCollecting can return.
CollectDone == doneCollecting

\* errorWg.Wait() can return.
ErrorWgIdle == errorWg = 0

MainWgWait ==
    /\ pc = "wait"
    /\ WgIdle
    /\ pc' = "closeRes"
    /\ UNCHANGED <<entries, workerCount, idx, fileCount, countErrAt, walkErr,
                   saved, output, reported, access, hashResult, counted, sameEntries>>
    /\ UNCHANGED pipeVars

MainCloseResults ==
    /\ pc = "closeRes"
    /\ resClosed' = TRUE
    /\ pc' = "closeErr"
    /\ UNCHANGED <<entries, workerCount, idx, fileCount, countErrAt, walkErr, sem,
                   wg, worker, outcome, resultsChan, errChan, errClosed, resAgg,
                   resHeld, files, doneCollecting, errAgg, errHeld, errorCount,
                   errorWg, bar, saved, output, reported, sentRes, sentErr, hashErrors, access, hashResult, counted, sameEntries>>

MainCloseErr ==
    /\ pc = "closeErr"
    /\ errClosed' = TRUE
    /\ pc' = "waitCollect"
    /\ UNCHANGED <<entries, workerCount, idx, fileCount, countErrAt, walkErr, sem,
                   wg, worker, outcome, resultsChan, resClosed, errChan, resAgg,
                   resHeld, files, doneCollecting, errAgg, errHeld, errorCount,
                   errorWg, bar, saved, output, reported, sentRes, sentErr, hashErrors, access, hashResult, counted, sameEntries>>

MainWaitCollect ==
    /\ pc = "waitCollect"
    /\ CollectDone
    /\ pc' = "waitErr"
    /\ UNCHANGED <<entries, workerCount, idx, fileCount, countErrAt, walkErr,
                   saved, output, reported, access, hashResult, counted, sameEntries>>
    /\ UNCHANGED pipeVars

MainWaitErr ==
    /\ pc = "waitErr"
    /\ ErrorWgIdle
    /\ pc' = "save"
    /\ UNCHANGED <<entries, workerCount, idx, fileCount, countErrAt, walkErr,
                   saved, output, reported, access, hashResult, counted, sameEntries>>
    /\ UNCHANGED pipeVars

\* Lines 256-276: main reads walkErr, errorCount and files, calls saveToJSON
\* and exits with status 1 when writing the file fails.
MainSave ==
    /\ pc = "save"
    /\ reported' = errorCount
    /\ output' = files
    /\ \E ok \in BOOLEAN :
          /\ saved' = IF ok THEN "ok" ELSE "failed"
          /\ pc' = IF ok THEN "done" ELSE "exit1"
    /\ UNCHANGED <<entries, workerCount, idx, fileCount, countErrAt, walkErr, access, hashResult, counted, sameEntries>>
    /\ UNCHANGED pipeVars

Next ==
    \/ CountVisit
    \/ CountReturn
    \/ Setup
    \/ WalkVisit
    \/ WalkSendErr
    \/ WalkAcquire
    \/ WalkReturn
    \/ \E i \in Ids : WorkerHash(i)
    \/ \E i \in Ids : WorkerSendErr(i)
    \/ \E i \in Ids : WorkerSendRes(i)
    \/ \E i \in Ids : WorkerRelease(i)
    \/ \E i \in Ids : WorkerDone(i)
    \/ ResRecv
    \/ ResAppend
    \/ ResExit
    \/ ErrRecv
    \/ ErrCount
    \/ ErrExit
    \/ MainWgWait
    \/ MainCloseResults
    \/ MainCloseErr
    \/ MainWaitCollect
    \/ MainWaitErr
    \/ MainSave

Spec == Init /\ [][Next]_vars

\* The Go scheduler runs every runnable goroutine eventually.
FairSpec == Spec /\ WF_vars(Next)

\* ------------------------------------------------------------ properties
\* Positions of a hashing goroutine that has been launched and has not ended.
Live == {"hash", "sendRes", "sendErr", "bar", "wgdone"}

\* Positions at which a hashing goroutine still holds its token of sem.
SlotHolding == {"hash", "sendRes", "sendErr", "bar"}

Occurrences(seq, x) == Cardinality({k \in 1..Len(seq) : seq[k] = x})

\* Number of messages entry i has put on resultsChan and errChan together.
Yielded(i) == Occurrences(sentRes, i) + sentErr[i]

RECURSIVE SumUpTo(_, _)
SumUpTo(f, n) == IF n = 0 THEN 0 ELSE f[n] + SumUpTo(f, n - 1)

\* Number of errors ever sent on errChan.
TotalErrSent == SumUpTo(sentErr, Size)

\* wg.Wait() has returned.
AfterWgWait ==
    pc \in {"closeRes", "closeErr", "waitCollect", "waitErr", "save", "done"}
    \/ (pc = "exit1" /\ saved = "failed")

\* The walker or a hashing goroutine can still send.
SendersLive ==
    pc \in {"walk", "senderr", "acquire"} \/ \E i \in Ids : worker[i] \in Live

\* Regular files the hashing walk visited without an access error.
Discovered ==
    {i \in Ids : access[i] = "ok" /\ entries[i].kind \notin ({"dir"} \cup SpecialKinds)}

\* The directories above entry i.
Ancestors(i) ==
    {j \in 1..(i - 1) : /\ entries[j].depth < entries[i].depth
                        /\ \A m \in (j + 1)..i : entries[m].depth > entries[j].depth}

\* Entry i bears an excluded base name or lies beneath a directory that does.
UnderExcluded(i) ==
    \E j \in Ancestors(i) \cup {i} : entries[j].name \in ExcludedNames

\* C1: every file for which a hashing goroutine was launched has sent at most
\* one message (a record or an error) at any time, and once wg.Wait has
\* returned its goroutine has ended and it has sent exactly one.
C1_ExactlyOneOutcome ==
    \A i \in Ids :
        worker[i] # "none" =>
            /\ Yielded(i) <= 1
            /\ AfterWgWait => (Yielded(i) = 1 /\ worker[i] = "exited")

C1_Witness ==
    /\ pc = "done"
    /\ workerCount = 2
    /\ \E i, j \in Ids :
          /\ i # j
          /\ worker[i] = "exited" /\ Occurrences(sentRes, i) = 1
          /\ worker[j] = "exited" /\ sentErr[j] = 1

\* C2: once saveToJSON has been called, the number of records handed to it
\* plus the number of hash-phase errors counted equals the number of regular
\* files the hashing walk visited without an access error.
C2_RecordsPlusHashErrors ==
    saved # "no" => Len(output) + hashErrors = Cardinality(Discovered)

C2_Witness ==
    /\ pc = "done"
    /\ Len(output) = 1
    /\ hashErrors = 1
    /\ errorCount = 1

\* C3: no send ever hits a closed channel; while either channel is closed, and
\* once either aggregator's receive loop has ended, the walk has returned and
\* every hashing goroutine has ended.
C3_CloseAfterAllSenders ==
    /\ pc # "panicSend"
    /\ (resClosed \/ errClosed) => ~SendersLive
    /\ (resAgg = "done" \/ errAgg = "done") => ~SendersLive

C3_Witness ==
    /\ resClosed /\ errClosed
    /\ resAgg = "done" /\ errAgg = "done"
    /\ Len(sentRes) >= 1
    /\ TotalErrSent >= 1

\* C4: when main reads files and errorCount to save them, both aggregators have
\* ended, files holds every record ever sent on resultsChan and errorCount is
\* the number of errors ever sent on errChan; what main saved and reported are
\* those values.
C4_ReadAfterDrain ==
    /\ pc = "save" =>
          /\ resAgg = "done" /\ errAgg = "done"
          /\ files = sentRes
          /\ errorCount = TotalErrSent
    /\ saved # "no" => (output = sentRes /\ reported = TotalErrSent)

C4_Witness ==
    /\ pc = "save"
    /\ Len(files) >= 1
    /\ errorCount >= 1

\* The run has ended past the save step with no goroutine left running.
PipelineTerminated ==
    /\ pc \in {"done", "exit1"}
    /\ saved # "no"
    /\ \A i \in Ids : worker[i] \in {"none", "exited"}
    /\ resAgg = "done"
    /\ errAgg = "done"

\* C5: under fair scheduling, a pipeline started with a worker count of at
\* least 1 always reaches the save step with the walk returned and every
\* hashing goroutine and both aggregators ended (so it never deadlocks).
C5_PipelineTerminates ==
    (pc = "walk" /\ workerCount >= 1) ~> PipelineTerminated

C5_Witness ==
    /\ PipelineTerminated
    /\ workerCount = 1
    /\ Cardinality({i \in Ids : worker[i] = "exited"}) = 2

\* C6: the pipeline (sem, the channels, the walk) is never set up with a worker
\* count below 1.
C6_WorkerCountValidated ==
    pc \in {"walk", "senderr", "acquire", "wait", "panicMake"} => workerCount >= 1

C8_ExcludedNeverRecorded ==
    \A k \in 1..Len(files) : ~UnderExcluded(files[k])

\* C9: a non-permission access error on an entry other than the root never
\* makes the run exit before the pipeline has run.
C9_NonRootErrorNeverAborts ==
    countErrAt > 1 => pc # "exit1"

\* C10: a run whose walk ended with a fatal error (at the root) still ends
\* having called saveToJSON.
C10_FatalWalkErrorStillSaves ==
    (pc \in {"exit0", "exit1", "done"} /\ (countErrAt = 1 \/ walkErr)) => saved # "no"

SeqSet(seq) == {seq[k] : k \in 1..Len(seq)}

\* The records the inputs of a run call for: the regular files the hashing
\* walk reached whose hash succeeded.
ExpectedRecords == {i \in Discovered : hashResult[i] = "ok"}

\* The files whose hash failed.
FailedFiles == {i \in Ids : hashResult[i] = "failed"}

\* C11: the records a run saves are, as a set and in number, exactly the
\* regular files the walk reached whose hash succeeded: they are fixed by the
\* tree and the per-file hash outcomes, whatever the worker count (1 or more)
\* and the interleaving of the hashing goroutines.
C11_RecordSetIndependentOfWorkers ==
    saved # "no" =>
        /\ SeqSet(output) = ExpectedRecords
        /\ Len(output) = Cardinality(ExpectedRecords)

C11_Witness ==
    /\ pc = "done"
    /\ workerCount = 2
    /\ Cardinality(ExpectedRecords) = 2

\* C12: in a run where exactly one file's hash failed, that file yields one
\* counted error and no record, and every other regular file the walk reached
\* yields its record and no error.
C12_OneUnreadableFileOnly ==
    (saved # "no" /\ Cardinality(FailedFiles) = 1) =>
        /\ hashErrors = 1
        /\ \A i \in FailedFiles : sentErr[i] = 1 /\ Occurrences(output, i) = 0
        /\ \A i \in Discovered \ FailedFiles :
              Occurrences(output, i) = 1 /\ sentErr[i] = 0

C12_Witness ==
    /\ pc = "done"
    /\ Cardinality(FailedFiles) = 1
    /\ Len(output) = 1

\* C13: when the count pass finds no file, the empty record sequence is
\* handed to saveToJSON and the run exits with status 0 when the write
\* succeeds, and neither the hashing walk nor any hashing or aggregator
\* goroutine is ever started.
C13_NoFilesSavesEmpty ==
    (pc # "count" /\ fileCount = 0 /\ countErrAt = 0) =>
        /\ pc \in {"exit0", "exit1"}
        /\ saved # "no"
        /\ output = <<>>
        /\ (saved = "ok" <=> pc = "exit0")
        /\ resAgg = "none"
        /\ errAgg = "none"
        /\ \A i \in Ids : worker[i] = "none" /\ access[i] = "none"

C13_Witness ==
    /\ pc = "exit0"
    /\ saved = "ok"
    /\ output = <<>>
    /\ Size >= 2

\* C14: an entry whose access failed with a permission error during the
\* hashing walk gets no hashing goroutine and sends nothing; no entry beneath
\* it is visited, dispatched or recorded; and the walk goes on with the next
\* entry that is not beneath it.
C14_PermissionPrunesOrSkips ==
    \A i \in Ids :
        access[i] = "perm" =>
            /\ worker[i] = "none"
            /\ Yielded(i) = 0
            /\ \A j \in (i + 1)..(NextSibling(i) - 1) :
                  access[j] = "none" /\ worker[j] = "none" /\ Yielded(j) = 0
            /\ NextSibling(i) <= Size =>
                  \/ access[NextSibling(i)] # "none"
                  \/ pc = "walk" /\ idx = NextSibling(i)

\* A directory was pruned with an entry beneath it and the run finished.
C14_Witness ==
    /\ pc = "done"
    /\ Size = 3
    /\ access[2] = "perm"
    /\ entries[2].kind = "dir"
    /\ entries[3].depth = 2
    /\ access[3] = "none"

\* A file was skipped and the file after it was dispatched.
C14_SkipWitness ==
    /\ Size = 3
    /\ access[2] = "perm"
    /\ entries[2].kind = "regular"
    /\ worker[3] # "none"

\* The kinds of entry the walk callback never dispatches.
NonRegularKinds == {"dir"} \cup SpecialKinds

\* C15 as stated: a directory or special entry never gets a hashing goroutine,
\* never appears among the records and never increases the error count.
C15_NonRegularNeverCounted ==
    \A i \in Ids :
        entries[i].kind \in ({"dir"} \cup SpecialKinds) =>
            /\ worker[i] = "none"
            /\ Occurrences(sentRes, i) = 0
            /\ sentErr[i] = 0

\* C15: a directory or special entry never gets a hashing goroutine and never
\* appears among the records, and sends an error only when its access failed
\* with a non-permission error; a regular file gets a work item (one wg.Add,
\* one goroutine) exactly when it was visited without an access error.
C15_WorkItemsOnlyForRegularFiles ==
    /\ \A i \in Ids :
          entries[i].kind \in NonRegularKinds =>
              /\ worker[i] = "none"
              /\ \A k \in 1..Len(sentRes) : sentRes[k] # i
              /\ sentErr[i] = (IF access[i] = "err" /\ ~(pc = "senderr" /\ idx = i)
                               THEN 1 ELSE 0)
    /\ \A i \in Ids :
          (worker[i] # "none" \/ (pc = "acquire" /\ idx = i))
              <=> (entries[i].kind \notin NonRegularKinds /\ access[i] = "ok")
    /\ wg = Cardinality({i \in Ids : worker[i] \in Live})
              + (IF pc = "acquire" THEN 1 ELSE 0)

C15_Witness ==
    /\ pc = "done"
    /\ \E i \in Ids : entries[i].kind = "symlink" /\ access[i] = "ok"
    /\ \E i \in Ids : entries[i].kind = "regular" /\ worker[i] = "exited"

\* A hashing error names the phase that failed, and it is the phase
\* calculateSHA256 failed in for that file.
NamesPhase(m) ==
    m.phase = "hash" =>
        /\ m.op \in {"open", "read"}
        /\ worker[m.path] # "exited" => m.op = outcome[m.path]

C17_RecordsInSendOrder ==
    /\ files \o (IF resAgg = "append" THEN <<resHeld>> ELSE <<>>) \o resultsChan
          = sentRes
    /\ \A k, l \in 1..Len(sentRes) : k # l => sentRes[k] # sentRes[l]
    /\ saved # "no" => output = sentRes

\* Two goroutines were live and the file found last was recorded first.
C17_Witness ==
    /\ pc = "done"
    /\ workerCount = 2
    /\ output = <<3, 2>>

\* C18: the error count main reads equals the number of entries whose access
\* failed with a non-permission error during the hashing walk plus the number
\* of failed hashes; permission errors and skipped special files add nothing.
C18_ErrorCountIsAccessPlusHash ==
    saved # "no" =>
        reported = Cardinality({i \in Ids : access[i] = "err"})
                      + Cardinality(FailedFiles)

C18_Witness ==
    /\ pc = "done"
    /\ reported = 2
    /\ \E i \in Ids : access[i] = "err"
    /\ \E i \in Ids : hashResult[i] = "failed"

\* A permission error was met and the count stayed at the one access error.
C18_PermWitness ==
    /\ pc = "done"
    /\ reported = 1
    /\ \E i \in Ids : access[i] = "perm"
    /\ \E i \in Ids : access[i] = "err"

\* The hashing walk has returned.
WalkReturned == pc = "wait" \/ (AfterWgWait /\ fileCount > 0)

\* C19: whatever the access to the entry at hand yields, the hashing walk's
\* callback returns nil or SkipDir, SkipDir only for a directory; the error
\* filepath.Walk returns is always nil; and the walk never stops early: when
\* it has returned, every entry it did not visit lies beneath a directory
\* whose access failed.
C19_HashingWalkNeverAborts ==
    /\ walkErr = FALSE
    /\ (pc = "walk" /\ idx <= Size) =>
          \A acc \in Outcomes(entries[idx]) :
              LET ret == CallbackRet(Classify(entries[idx], acc))
              IN  /\ ret \in {"nil", "SkipDir"}
                  /\ ret = "SkipDir" => entries[idx].kind = "dir"
    /\ WalkReturned =>
          \A i \in Ids :
              access[i] = "none" =>
                  \E j \in Ancestors(i) : access[j] \in {"perm", "err"}

\* An access error was reported and the walk went on to the next entry.
C19_Witness ==
    /\ pc = "done"
    /\ Size = 3
    /\ access[2] = "err"
    /\ access[3] # "none"

\* C20: when both passes met the same non-directory entries (the tree did not
\* change), the progress bar has been incremented, once wg.Wait has returned,
\* exactly as many times as the pre-count pass counted files.
C20_BarEqualsPreCount ==
    (AfterWgWait /\ sameEntries) => bar = fileCount

C20_Witness ==
    /\ pc = "done"
    /\ sameEntries
    /\ fileCount = 2
    /\ bar = 2
    /\ \E i \in Ids : entries[i].kind = "symlink" /\ access[i] = "ok"
    /\ \E i \in Ids : hashResult[i] = "failed"

====
